---- MODULE Spec2Model ----
(***************************************************************************)
(* SnapCast: an HTTP service that renders a template to HTML, loads it in  *)
(* a headless browser tab and answers with a cropped PNG screenshot.       *)
(*                                                                         *)
(* The model follows src/main.go, src/config.go and src/template.go: one   *)
(* goroutine per request (AuthMiddleware, RenderHandler, RenderScreenshot  *)
(* with its deferred calls), the configuration watcher's callback          *)
(* (ApplyDynamicConfig, one atomic store per step) and the template        *)
(* watcher goroutine (an unsynchronized write to templateMap).  The        *)
(* earlier variant of the server kept in src/unnamed/part_000 is modelled  *)
(* by the V_ actions and SpecVariant.                                      *)
(*                                                                         *)
(* Strings that the code takes apart or puts together (template keys,      *)
(* file names) are sequences of characters; strings that are only          *)
(* compared (tokens, error texts) are TLA+ strings.                        *)
(***************************************************************************)
EXTENDS Integers, Sequences, FiniteSets, TLC

(***************************************************************************)
(* Bounds of the model.                                                    *)
(***************************************************************************)
NumReq == 2
MaxReloads == 1
MaxEvents == 1
MaxNames == 2
MaxCoord == 3
MaxRelease == 2
MaxWatch == 3

Requests == 1..NumReq

(***************************************************************************)
(* HTTP status codes used by the handlers.                                 *)
(***************************************************************************)
StatusOK == 200
StatusBadRequest == 400
StatusUnauthorized == 401
StatusInternalServerError == 500

Max2(a, b) == IF a >= b THEN a ELSE b
Min2(a, b) == IF a <= b THEN a ELSE b

(***************************************************************************)
(* Configuration: the values ApplyDynamicConfig reads from viper.  The     *)
(* first is the file ensureConfigFile writes; the others turn on           *)
(* authentication, change the quality and set a browser path and a short  *)
(* timeout, or set a timeout that has expired as soon as it is armed.      *)
(***************************************************************************)
DefaultConfig ==
    [token |-> "", level |-> "info", browser |-> "", quality |-> 100, timeout |-> 10000]

Configs ==
    { DefaultConfig,
      [token |-> "t1", level |-> "debug", browser |-> "/opt/chrome", quality |-> 80, timeout |-> 50],
      [token |-> "t2", level |-> "info", browser |-> "", quality |-> 100, timeout |-> 0] }

Tokens == {c.token : c \in Configs}

\* Authorization headers a client sends; "" is a missing header
\* (c.GetHeader returns "" for it).
Headers == {"", "t1", "t2"}

(***************************************************************************)
(* Template keys and template file names.                                  *)
(***************************************************************************)
Slash == "/"
Underscore == "_"
HtmlSuffix == ".html"
NoPath == << >>

Sites == { <<"a">>, <<"x">> }
Types == { <<"b">> }

\* selectTemplate: key := p.Site + "/" + p.Type
TemplateKey(site, type) == site \o <<Slash>> \o type

\* a lookup that falls back to a template that is in the directory
MapLookupWithFallback(tm, key) ==
    IF key \in DOMAIN tm THEN tm[key] ELSE <<"d", Slash, "a", Underscore, "b", HtmlSuffix>>
\* templateMap[key]: Go's zero value "" for a key that is not in the map
MapLookup(tm, key) == IF key \in DOMAIN tm THEN tm[key] ELSE NoPath

selectTemplate(p, tm) == MapLookup(tm, TemplateKey(p.site, p.type))

\* an assignment that rebuilds the map with the one entry
MapReplace(tm, key, path) == [k \in {key} |-> path]
\* m[key] = path
MapStore(tm, key, path) ==
    [k \in DOMAIN tm \cup {key} |-> IF k = key THEN path ELSE tm[k]]

(***************************************************************************)
(* The crop arithmetic of RenderScreenshot.  A device pixel ratio is a     *)
(* rational dpr2 / 2, so that 1.5 can be measured; the rectangle the       *)
(* script returns is already rounded to integers by Math.floor/Math.ceil.  *)
(***************************************************************************)
\* int(f) for a float64 f = n / 2: truncation toward zero
TruncHalf(n) == IF n >= 0 THEN n \div 2 ELSE -((-n) \div 2)
FloorHalf(n) == n \div 2
CeilHalf(n) == -((-n) \div 2)

\* x := int(r.X * r.DPR) and the like
ScaleToInt(v, dpr2) == TruncHalf(v * dpr2)

\* image.Rect(x0, y0, x1, y1): swaps the coordinates where needed so that
\* Min <= Max
ImageRect(x0, y0, x1, y1) ==
    [minX |-> Min2(x0, x1), minY |-> Min2(y0, y1),
     maxX |-> Max2(x0, x1), maxY |-> Max2(y0, y1)]

\* the x, y, w, h of RenderScreenshot after scaling and clamping
ClampedCrop(m, frame) ==
    LET x0 == ScaleToInt(m.x, m.dpr2)
        y0 == ScaleToInt(m.y, m.dpr2)
        w0 == ScaleToInt(m.w, m.dpr2)
        h0 == ScaleToInt(m.h, m.dpr2)
        x == Max2(0, x0)
        y == Max2(0, y0)
    IN  [x |-> x, y |-> y,
         w |-> Min2(w0, frame.dx - x),
         h |-> Min2(h0, frame.dy - y)]

\* crop := image.Rect(x, y, x+w, y+h)
CropRect(c) == ImageRect(c.x, c.y, c.x + c.w, c.y + c.h)

RectDx(rc) == rc.maxX - rc.minX
RectDy(rc) == rc.maxY - rc.minY

\* png.Encode refuses an image with a width or height of zero
EncodeFails(rc) == RectDx(rc) <= 0 \/ RectDy(rc) <= 0


(***************************************************************************)
(* File names of the template directory (src/template.go).                 *)
(***************************************************************************)
TemplateDir == <<"d">>

\* filepath.Join(dir, name)
JoinPath(dir, name) == dir \o <<Slash>> \o name

SlashIndexes(p) == {i \in 1..Len(p) : p[i] = Slash}

\* filepath.Base: what follows the last separator
Base(p) ==
    IF SlashIndexes(p) = {} THEN p
    ELSE LET last == CHOOSE i \in SlashIndexes(p) : \A j \in SlashIndexes(p) : j <= i
         IN  SubSeq(p, last + 1, Len(p))

\* strings.HasSuffix(name, ".html") and strings.TrimSuffix(name, ".html")
HasHtmlSuffix(n) == Len(n) >= 1 /\ n[Len(n)] = HtmlSuffix
TrimHtmlSuffix(n) == IF HasHtmlSuffix(n) THEN SubSeq(n, 1, Len(n) - 1) ELSE n

\* strings.Split(s, "_")
RECURSIVE SplitUnderscore(_)
SplitUnderscore(s) ==
    LET idx == {i \in 1..Len(s) : s[i] = Underscore}
    IN  IF idx = {} THEN <<s>>
        ELSE LET first == CHOOSE i \in idx : \A j \in idx : i <= j
             IN  <<SubSeq(s, 1, first - 1)>> \o SplitUnderscore(SubSeq(s, first + 1, Len(s)))

NameParts(name) == SplitUnderscore(TrimHtmlSuffix(name))

\* the test both loadTemplates and the watcher apply to a file name
IsTemplateName(name) == HasHtmlSuffix(name) /\ Len(NameParts(name)) = 2

\* key := parts[0] + "/" + parts[1]
KeyOfName(name) == NameParts(name)[1] \o <<Slash>> \o NameParts(name)[2]

\* loadTemplates: one entry per file of the directory named <site>_<type>.html
loadTemplates(dir, names) ==
    LET good == {n \in names : IsTemplateName(n)}
    IN  [k \in {KeyOfName(n) : n \in good} |->
            JoinPath(dir, CHOOSE n \in good : KeyOfName(n) = k)]

\* the directory's files when the server starts
StartupFiles ==
    { <<"a", Underscore, "b", HtmlSuffix>>,
      <<"a", Underscore, "b", Underscore, "c", HtmlSuffix>>,
      <<"n", ".txt">> }

\* fsnotify events the watcher goroutine receives
EventOps == {"create", "write", "remove"}
EventNames ==
    { JoinPath(TemplateDir, <<"x", Underscore, "b", HtmlSuffix>>),
      JoinPath(TemplateDir, <<"a", Underscore, "b", HtmlSuffix>>),
      JoinPath(TemplateDir, <<"n", ".txt">>) }

NoWrite == [key |-> NoPath, path |-> NoPath]

(***************************************************************************)
(* Browser path resolution (src/main.go, findLinuxChromePath).             *)
(***************************************************************************)
LinuxPaths ==
    << "/usr/bin/google-chrome", "/usr/bin/chromium-browser",
       "/usr/bin/chromium", "/snap/bin/chromium" >>

\* the first listed path that exists on disk, "" when none does
findLinuxChromePath(disk) ==
    LET hits == {i \in 1..Len(LinuxPaths) : LinuxPaths[i] \in disk}
    IN  IF hits = {} THEN ""
        ELSE LinuxPaths[CHOOSE i \in hits : \A j \in hits : i <= j]

resolveBrowserPath(configured, disk) ==
    IF configured # "" THEN configured ELSE findLinuxChromePath(disk)

\* what is installed on the machine the server starts on
StartupDisk == {"/usr/bin/chromium", "/snap/bin/chromium"}
StartupHost == [goos |-> "linux", disk |-> StartupDisk]

(***************************************************************************)
(* Inputs of a request.                                                    *)
(***************************************************************************)
\* data is nil (absent or null) or a value the template is executed with
DataKinds == {"nil", "value"}
Payloads == [site : Sites, type : Types, data : DataKinds]
Malformed == [site |-> NoPath, type |-> NoPath, data |-> "malformed"]
NoBody == [site |-> NoPath, type |-> NoPath, data |-> "unread"]

\* what the script of the measure step returns, and the decoded frame
Measures ==
    { [x |-> 0, y |-> 0, w |-> 2, h |-> 2, dpr2 |-> 2],
      [x |-> 2, y |-> 0, w |-> 1, h |-> 1, dpr2 |-> 2] }
Frames == { [dx |-> 2, dy |-> 4] }
NoMeasure == [x |-> 0, y |-> 0, w |-> 0, h |-> 0, dpr2 |-> 0]
NoFrame == [dx |-> 0, dy |-> 0]
NoCrop == [x |-> 0, y |-> 0, w |-> 0, h |-> 0]

NoErr == <<"", "">>
NoResponse == [status |-> 0, ctype |-> "", error |-> NoErr, image |-> FALSE]
JsonError(status, err) ==
    [status |-> status, ctype |-> "application/json", error |-> err, image |-> FALSE]
PngResponse ==
    [status |-> StatusOK, ctype |-> "image/png", error |-> NoErr, image |-> TRUE]

\* names time.Now().UnixNano() can give a temporary file
TmpNames == 1..MaxNames
NoFile == 0

(***************************************************************************)
(* What one run of the model covers: NumReq concurrent requests under a    *)
(* fixed configuration, or one request with configuration reloads; the     *)
(* template watcher runs in both.                                          *)
(***************************************************************************)
Scenarios ==
    { [requests |-> NumReq, reloads |-> 0, events |-> MaxEvents],
      [requests |-> 1, reloads |-> MaxReloads, events |-> MaxEvents] }

(***************************************************************************)
(* State.  A local variable is reset once no later statement reads it.     *)
(***************************************************************************)
VARIABLES
    procState,          \* where main() is: a startup step, "serving", "fatal",
                        \* or "crashed" after a fatal runtime error
    host,               \* runtime.GOOS and the browser paths that exist on disk
    execPath,           \* browserPath of main(), the allocator's ExecPath
    budget,             \* the scenario of this run
    cfgFile,            \* the configuration viper holds
    cfgHist,            \* every configuration viper has held
    reloads,            \* configuration changes so far
    applyPc,            \* the store ApplyDynamicConfig performs next
    globalAuthToken, logLevel, globalBrowserPath, renderQuality, renderTimeout,
    templateMap,        \* key -> template path
    mapWrite,           \* the map assignment the watcher is in the middle of
    events,             \* watcher events so far
    files,              \* temporary directory: file name -> whose HTML it holds
    tabs,               \* open tab contexts
    nextTab,            \* tab contexts created so far
    allocators,         \* browser allocators created so far
    ctx,                \* per request: state of its deadline context
    stalled,            \* per request: the engine does not answer
    pc,                 \* per request: where its goroutine is
    rq,                 \* per request: locals of AuthMiddleware and RenderHandler
    rs,                 \* per request: locals of RenderScreenshot
    resp                \* per request: the response written

startVars == <<host, execPath>>
cfgVars == <<cfgFile, cfgHist, reloads, applyPc, globalAuthToken, logLevel,
             globalBrowserPath, renderQuality, renderTimeout>>
tmplVars == <<templateMap, mapWrite, events>>
tabVars == <<tabs, nextTab, allocators, ctx, stalled>>
reqVars == <<pc, rq, rs, resp>>
vars == <<procState, startVars, budget, cfgVars, tmplVars, files, tabVars, reqVars>>

\* hdr: the Authorization header; snap: the configurations that agree with
\* every configuration value the request has loaded so far
InitRq ==
    [hdr |-> "", expected |-> "", snap |-> Configs, body |-> NoBody,
     tmplPath |-> NoPath, found |-> "unread", html |-> "none", fault |-> "none"]
InitRs ==
    [tab |-> 0, tmpFile |-> NoFile, wrote |-> FALSE, loaded |-> 0,
     measure |-> NoMeasure, frame |-> NoFrame, crop |-> NoCrop, err |-> NoErr,
     released |-> 0]

InitRequests ==
    /\ pc = [r \in Requests |-> IF r <= budget.requests THEN "auth" ELSE "off"]
    /\ rq = [r \in Requests |-> InitRq]
    /\ rs = [r \in Requests |-> InitRs]
    /\ resp = [r \in Requests |-> NoResponse]
    /\ ctx = [r \in Requests |-> "none"]
    /\ stalled = [r \in Requests |-> FALSE]

\* main() up to r.Run: InitConfig applies the configuration, resolveBrowserPath
\* caches a probed path, InitGlobalAllocator creates the one allocator,
\* loadTemplates fills the map, watchTemplateDir starts the watcher.
Init ==
    /\ procState = "serving"
    /\ budget \in Scenarios
    /\ cfgFile \in Configs
    /\ cfgHist = {cfgFile}
    /\ reloads = 0
    /\ applyPc = "idle"
    /\ globalAuthToken = cfgFile.token
    /\ logLevel = cfgFile.level
    /\ globalBrowserPath = resolveBrowserPath(cfgFile.browser, StartupDisk)
    /\ host = StartupHost
    /\ execPath = resolveBrowserPath(cfgFile.browser, StartupDisk)
    /\ renderQuality = cfgFile.quality
    /\ renderTimeout = cfgFile.timeout
    /\ templateMap = loadTemplates(TemplateDir, StartupFiles)
    /\ mapWrite = NoWrite
    /\ events = 0
    /\ files = << >>
    /\ tabs = {}
    /\ nextTab = 0
    /\ allocators = 1
    /\ InitRequests

Serving == procState = "serving"

\* main() has not returned and the runtime has not stopped the process: the
\* goroutine viper.WatchConfig started runs
Alive == procState \notin {"fatal", "crashed"}

(***************************************************************************)
(* Configuration reload (src/config.go).  viper's watcher goroutine reads  *)
(* the changed file and then calls ApplyDynamicConfig, which performs its  *)
(* five stores one after the other; request goroutines run in between.     *)
(***************************************************************************)
ConfigChange(c) ==
    /\ Alive
    /\ applyPc = "idle"
    /\ reloads < budget.reloads
    /\ cfgFile' = c
    /\ cfgHist' = cfgHist \cup {c}
    /\ reloads' = reloads + 1
    /\ applyPc' = "token"
    /\ UNCHANGED <<globalAuthToken, logLevel, globalBrowserPath, renderQuality, renderTimeout>>
    /\ UNCHANGED <<procState, startVars, budget, tmplVars, files, tabVars, reqVars>>

ApplyDynamicConfig ==
    /\ Alive
    /\ applyPc # "idle"
    /\ globalAuthToken' = IF applyPc = "token" THEN cfgFile.token ELSE globalAuthToken
    /\ logLevel' = IF applyPc = "level" THEN cfgFile.level ELSE logLevel
    /\ globalBrowserPath' = IF applyPc = "browser" THEN cfgFile.browser ELSE globalBrowserPath
    /\ renderQuality' = IF applyPc = "quality" THEN cfgFile.quality ELSE renderQuality
    /\ renderTimeout' = IF applyPc = "timeout" THEN cfgFile.timeout ELSE renderTimeout
    /\ applyPc' = CASE applyPc = "token" -> "level"
                    [] applyPc = "level" -> "browser"
                    [] applyPc = "browser" -> "quality"
                    [] applyPc = "quality" -> "timeout"
                    [] OTHER -> "idle"
    /\ UNCHANGED <<cfgFile, cfgHist, reloads>>
    /\ UNCHANGED <<procState, startVars, budget, tmplVars, files, tabVars, reqVars>>

(***************************************************************************)
(* The template watcher goroutine (src/template.go, watchTemplateDir).     *)
(* The assignment templateMap[key] = event.Name takes no lock: it is in    *)
(* progress from WatcherEvent to WatcherStore.                             *)
(***************************************************************************)
WatcherEvent(op, name) ==
    /\ Serving
    /\ events < budget.events
    /\ mapWrite = NoWrite
    /\ events' = events + 1
    /\ mapWrite' = IF op \in {"create", "write"} /\ HasHtmlSuffix(name)
                      /\ Len(NameParts(Base(name))) = 2
                   THEN [key |-> KeyOfName(Base(name)), path |-> name]
                   ELSE NoWrite
    /\ UNCHANGED templateMap
    /\ UNCHANGED <<procState, startVars, budget, cfgVars, files, tabVars, reqVars>>

WatcherStore ==
    /\ Serving
    /\ mapWrite # NoWrite
    /\ templateMap' = MapStore(templateMap, mapWrite.key, mapWrite.path)
    /\ mapWrite' = NoWrite
    /\ UNCHANGED events
    /\ UNCHANGED <<procState, startVars, budget, cfgVars, files, tabVars, reqVars>>

(***************************************************************************)
(* The deadline timer context.WithTimeout arms for a request, and the      *)
(* browser engine.                                                         *)
(***************************************************************************)
\* the deadline passes: the context is done and the operation in flight
\* is cancelled
TimerExpire(r) ==
    /\ Serving
    /\ ctx[r] = "live"
    /\ ctx' = [ctx EXCEPT ![r] = "expired"]
    /\ stalled' = [stalled EXCEPT ![r] = FALSE]
    /\ UNCHANGED <<tabs, nextTab, allocators>>
    /\ UNCHANGED <<procState, startVars, budget, cfgVars, tmplVars, files, reqVars>>

BrowserStages == {"navigate", "background", "waitvisible", "scroll", "measure", "capture"}

\* the engine stops answering the operation the request waits for
EngineStall(r) ==
    /\ Serving
    /\ pc[r] \in BrowserStages
    /\ ctx[r] = "live"
    /\ ~stalled[r]
    /\ stalled' = [stalled EXCEPT ![r] = TRUE]
    /\ UNCHANGED <<tabs, nextTab, allocators, ctx>>
    /\ UNCHANGED <<procState, startVars, budget, cfgVars, tmplVars, files, reqVars>>

(***************************************************************************)
(* AuthMiddleware and RenderHandler (src/main.go).                         *)
(***************************************************************************)
Finish(r, response) ==
    /\ resp' = [resp EXCEPT ![r] = response]
    /\ pc' = [pc EXCEPT ![r] = "done"]

Goto(r, label) ==
    /\ pc' = [pc EXCEPT ![r] = label]
    /\ UNCHANGED resp

\* the configurations of snap that hold value v in field f
Agreeing(snap, f, v) == {c \in snap : c[f] = v}

\* a check that only asks for some Authorization header
AuthRejectsMissingHeader(expected, authHeader) == expected # "" /\ authHeader = ""
\* if expected != "" && authHeader != expected
AuthRejects(expected, authHeader) == expected # "" /\ authHeader # expected

\* Requests are alike: request r is taken up after request r - 1.
AuthMiddleware(r, h) ==
    /\ Serving
    /\ pc[r] = "auth"
    /\ \A q \in Requests : q < r => pc[q] # "auth"
    /\ rq' = [rq EXCEPT ![r].hdr = h, ![r].expected = globalAuthToken,
                        ![r].snap = Agreeing(@, "token", globalAuthToken)]
    /\ IF AuthRejects(globalAuthToken, h)
       THEN Finish(r, JsonError(StatusUnauthorized, <<"unauthorized", "">>))
       ELSE Goto(r, "bind")
    /\ UNCHANGED <<rs, procState, startVars, budget, cfgVars, tmplVars, files, tabVars>>

\* a handler that drops the binding error
BindNeverFails(b) == FALSE
\* c.ShouldBindJSON(&payload) returns an error
BindFails(b) == b = Malformed

Bind(r, b) ==
    /\ Serving
    /\ pc[r] = "bind"
    /\ rq' = [rq EXCEPT ![r].body = b, ![r].hdr = "", ![r].expected = ""]
    /\ IF BindFails(b)
       THEN Finish(r, JsonError(StatusBadRequest, <<"invalid request body", "">>))
       ELSE Goto(r, "select")
    /\ UNCHANGED <<rs, procState, startVars, budget, cfgVars, tmplVars, files, tabVars>>

\* What templateMap[key] yields: with no write in progress the entry; while
\* the watcher's assignment is in progress (a data race) the entry as it was
\* or as it will be.  The Go runtime may instead end the process: SelectCrash.
RacyLookups(tm, w, key) ==
    IF w = NoWrite THEN {MapLookup(tm, key)}
    ELSE {MapLookup(tm, key), MapLookup(MapStore(tm, w.key, w.path), key)}

\* whether the map holds an entry for the key when it is read
Presence(tm, w, key) ==
    IF w # NoWrite /\ w.key = key THEN "racing"
    ELSE IF key \in DOMAIN tm THEN "present" ELSE "absent"

Select(r, path) ==
    /\ Serving
    /\ pc[r] = "select"
    /\ LET key == TemplateKey(rq[r].body.site, rq[r].body.type)
       IN  /\ path \in RacyLookups(templateMap, mapWrite, key)
           /\ rq' = [rq EXCEPT ![r].tmplPath = path,
                               ![r].found = Presence(templateMap, mapWrite, key),
                               ![r].body.site = NoPath, ![r].body.type = NoPath]
    /\ IF path = NoPath
       THEN Finish(r, JsonError(StatusBadRequest, <<"no template found", "">>))
       ELSE Goto(r, "parse")
    /\ UNCHANGED <<rs, procState, startVars, budget, cfgVars, tmplVars, files, tabVars>>

\* fatal error: concurrent map read and map write
SelectCrash(r) ==
    /\ Serving
    /\ pc[r] = "select"
    /\ mapWrite # NoWrite
    /\ procState' = "crashed"
    /\ UNCHANGED <<startVars, budget, cfgVars, tmplVars, files, tabVars, reqVars>>

\* template.New(...).Funcs(funcsList).ParseFiles(tmplPath)
Parse(r, ok) ==
    /\ Serving
    /\ pc[r] = "parse"
    /\ rq' = [rq EXCEPT ![r].tmplPath = NoPath, ![r].found = "unread"]
    /\ IF ok
       THEN Goto(r, "exec")
       ELSE Finish(r, JsonError(StatusInternalServerError, <<"template parse failed", "">>))
    /\ UNCHANGED <<rs, procState, startVars, budget, cfgVars, tmplVars, files, tabVars>>

\* how tmpl.Execute ended: it returned nil, returned an error, or panicked
ExecOutcomes == {"ok", "error", "panic"}

\* what went wrong inside tmpl.Execute, if anything
ExecFault(outcome) == IF outcome = "ok" THEN "none" ELSE outcome

\* a wrapper whose deferred function recovers and drops the panic value
RecoverWithoutError(outcome) ==
    IF outcome = "error" THEN <<"execute template failed", "error">> ELSE NoErr
\* safeExecuteTemplate: the deferred recover turns a panic of tmpl.Execute
\* into an error
safeExecuteTemplate(outcome) ==
    CASE outcome = "ok" -> NoErr
      [] outcome = "error" -> <<"execute template failed", "error">>
      [] OTHER -> <<"execute template failed", "panic">>

\* a handler that answers a request without data as a client error
ExecRequiresData(r, outcome) ==
    /\ Serving
    /\ pc[r] = "exec"
    /\ outcome = "ok"
    /\ IF rq[r].body.data = "nil"
       THEN /\ rq' = [rq EXCEPT ![r].body = NoBody]
            /\ Finish(r, JsonError(StatusBadRequest, <<"data required", "">>))
       ELSE /\ rq' = [rq EXCEPT ![r].html = "rendered", ![r].body = NoBody]
            /\ Goto(r, "newtab")
    /\ UNCHANGED <<rs, procState, startVars, budget, cfgVars, tmplVars, files, tabVars>>
Exec(r, outcome) ==
    /\ Serving
    /\ pc[r] = "exec"
    /\ IF rq[r].body.data = "nil"
       THEN /\ outcome = "ok"
            /\ rq' = [rq EXCEPT ![r].html = "empty", ![r].body = NoBody]
            /\ Goto(r, "newtab")
       ELSE IF safeExecuteTemplate(outcome) # NoErr
       THEN /\ rq' = [rq EXCEPT ![r].body = NoBody, ![r].fault = ExecFault(outcome)]
            /\ Finish(r, JsonError(StatusInternalServerError, safeExecuteTemplate(outcome)))
       ELSE /\ rq' = [rq EXCEPT ![r].html = "rendered", ![r].body = NoBody,
                                ![r].fault = ExecFault(outcome)]
            /\ Goto(r, "newtab")
    /\ UNCHANGED <<rs, procState, startVars, budget, cfgVars, tmplVars, files, tabVars>>


(***************************************************************************)
(* RenderScreenshot and NewTabContext (src/main.go).                       *)
(***************************************************************************)
\* chromedp.NewContext(globalAllocCtx): a new tab context each call
NewTabId(created) == created + 1

\* context.WithTimeout(browserCtx, timeoutMs ms): a deadline that is not in
\* the future leaves a context that is done from the start
ArmDeadline(timeoutMs) == IF timeoutMs <= 0 THEN "expired" ELSE "live"

\* a release function that stops the timer and leaves the tab open
ReleaseTimerOnly(open, id) == open
\* a release function that cancels the allocator, and with it every tab
ReleaseAllocator(open, id) == {}
\* a release function that takes a tab that is not open for one to reopen
ReleaseOrReopen(open, id) == IF id \in open THEN open \ {id} ELSE open \cup {id}
\* the release function: cancel() stops the timer, browserCancel() closes the tab
ReleaseTab(open, id) == open \ {id}

NewTabContext(r) ==
    /\ Serving
    /\ pc[r] = "newtab"
    /\ nextTab' = nextTab + 1
    /\ tabs' = tabs \cup {NewTabId(nextTab)}
    /\ ctx' = [ctx EXCEPT ![r] = ArmDeadline(renderTimeout)]
    /\ rs' = [rs EXCEPT ![r].tab = NewTabId(nextTab)]
    /\ rq' = [rq EXCEPT ![r].snap = Agreeing(@, "timeout", renderTimeout)]
    /\ Goto(r, "write")
    /\ UNCHANGED <<allocators, stalled, procState, startVars, budget, cfgVars, tmplVars, files>>

\* a cleanup written at the end of the success path instead of deferred
RemoveOnSuccessOnly(wrote, failed) == IF wrote /\ ~failed THEN "remove" ELSE "cancel"
\* The deferred calls that run when RenderScreenshot returns, last registered
\* first: os.Remove(tmpFile) once the file was written, then the release
\* function.  Both are registered with defer, so they run whether or not the
\* return carries an error.
DeferredCalls(wrote, failed) == IF wrote THEN "remove" ELSE "cancel"

WriteOutcomes == {"ok", "openfail", "writefail"}

\* tmpFile is named after time.Now().UnixNano(): name is what the clock gives.
\* os.WriteFile creates or truncates the file, then writes the HTML; it can
\* fail before the file exists or after it was created (owner 0: not a
\* complete document of any request).
WriteFile(r, name, outcome) ==
    /\ Serving
    /\ pc[r] = "write"
    /\ CASE outcome = "ok" ->
              /\ files' = MapStore(files, name, r)
              /\ rs' = [rs EXCEPT ![r].tmpFile = name, ![r].wrote = TRUE]
              /\ rq' = rq
              /\ Goto(r, "navigate")
         [] outcome = "openfail" ->
              /\ files' = files
              /\ rs' = [rs EXCEPT ![r].err = <<"write failed", "">>]
              /\ rq' = [rq EXCEPT ![r].html = "none"]
              /\ Goto(r, DeferredCalls(FALSE, TRUE))
         [] OTHER ->
              /\ files' = MapStore(files, name, 0)
              /\ rs' = [rs EXCEPT ![r].err = <<"write failed", "">>]
              /\ rq' = [rq EXCEPT ![r].html = "none"]
              /\ Goto(r, DeferredCalls(FALSE, TRUE))
    /\ UNCHANGED <<procState, startVars, budget, cfgVars, tmplVars, tabVars>>

\* How a chromedp.Run step can end: with the context done it fails at once;
\* otherwise the engine answers (ok or error) unless it has stopped answering,
\* in which case only the deadline ends the step.
RunOutcomes(r) ==
    IF ctx[r] # "live" THEN {"deadline"}
    ELSE IF stalled[r] THEN {}
    ELSE {"ok", "error"}

Cause(outcome) ==
    IF outcome = "deadline" THEN "context deadline exceeded" ELSE "engine error"

\* a failed step that is logged and followed by another navigation
RetryFromNavigate(r, err) ==
    /\ rs' = [rs EXCEPT ![r].err = err]
    /\ Goto(r, "navigate")
\* return nil, err: the locals are gone, the deferred calls run
FailWith(r, err) ==
    /\ rs' = [rs EXCEPT ![r] = [InitRs EXCEPT !.tab = rs[r].tab, !.tmpFile = rs[r].tmpFile,
                                              !.wrote = rs[r].wrote, !.err = err]]
    /\ Goto(r, DeferredCalls(rs[r].wrote, TRUE))

\* one action of the first chromedp.Run; its error is wrapped
\* "failed to evaluate JS: %w"
FirstRunStep(r, stage, next, outcome) ==
    /\ Serving
    /\ pc[r] = stage
    /\ outcome \in RunOutcomes(r)
    /\ IF outcome = "ok"
       THEN /\ rs' = [rs EXCEPT ![r].loaded = 0]
            /\ Goto(r, next)
       ELSE FailWith(r, <<"failed to evaluate JS", Cause(outcome)>>)
    /\ UNCHANGED <<rq, procState, startVars, budget, cfgVars, tmplVars, files, tabVars>>

\* chromedp.Navigate(fileURL): loads what the file holds now (loaded: whose
\* document that is); a file that is gone is an engine error
Navigate(r, outcome) ==
    /\ Serving
    /\ pc[r] = "navigate"
    /\ outcome \in RunOutcomes(r)
    /\ outcome = "ok" => rs[r].tmpFile \in DOMAIN files
    /\ IF outcome = "ok"
       THEN /\ rs' = [rs EXCEPT ![r].loaded = files[rs[r].tmpFile]]
            /\ Goto(r, "background")
       ELSE FailWith(r, <<"failed to evaluate JS", Cause(outcome)>>)
    /\ rq' = [rq EXCEPT ![r].html = "none"]
    /\ UNCHANGED <<procState, startVars, budget, cfgVars, tmplVars, files, tabVars>>

\* emulation.SetDefaultBackgroundColorOverride
BackgroundOverride(r, outcome) == FirstRunStep(r, "background", "waitvisible", outcome)

\* chromedp.WaitVisible("body")
WaitVisible(r, outcome) == FirstRunStep(r, "waitvisible", "scroll", outcome)

\* chromedp.Evaluate(... scrollIntoView ...)
ScrollIntoView(r, outcome) == FirstRunStep(r, "scroll", "measure", outcome)

\* the second chromedp.Run: the script returns the rounded rectangle and the
\* device pixel ratio; json.Unmarshal reads it into r.  The error of the run
\* is returned as it is.
Measure(r, outcome, m) ==
    /\ Serving
    /\ pc[r] = "measure"
    /\ outcome \in RunOutcomes(r)
    /\ IF outcome = "ok"
       THEN /\ m # NoMeasure
            /\ rs' = [rs EXCEPT ![r].measure = m]
            /\ Goto(r, "capture")
       ELSE /\ m = NoMeasure
            /\ FailWith(r, <<"evaluate failed", Cause(outcome)>>)
    /\ UNCHANGED <<rq, procState, startVars, budget, cfgVars, tmplVars, files, tabVars>>

\* the third chromedp.Run: FullScreenshot(&full, int(renderQuality.Load())).
\* The quality is loaded before the run starts; "empty" is a run that
\* succeeded with no bytes.
Capture(r, outcome) ==
    /\ Serving
    /\ pc[r] = "capture"
    /\ outcome \in RunOutcomes(r) \cup (IF "ok" \in RunOutcomes(r) THEN {"empty"} ELSE {})
    /\ rq' = [rq EXCEPT ![r].snap = Agreeing(@, "quality", renderQuality)]
    /\ CASE outcome = "ok" ->
              /\ rs' = rs
              /\ Goto(r, "decode")
         [] outcome = "empty" ->
              FailWith(r, <<"screenshot data is empty", "">>)
         [] OTHER ->
              FailWith(r, <<"failed to take screenshot", Cause(outcome)>>)
    /\ UNCHANGED <<procState, startVars, budget, cfgVars, tmplVars, files, tabVars>>

\* png.Decode(bytes.NewReader(full)): an image with its bounds, or an error
Decode(r, ok, frame) ==
    /\ Serving
    /\ pc[r] = "decode"
    /\ IF ok
       THEN /\ frame # NoFrame
            /\ rs' = [rs EXCEPT ![r].frame = frame]
            /\ Goto(r, "crop")
       ELSE /\ frame = NoFrame
            /\ FailWith(r, <<"failed to decode screenshot", "">>)
    /\ UNCHANGED <<rq, procState, startVars, budget, cfgVars, tmplVars, files, tabVars>>

\* x, y, w, h, the clamping, image.Rect, image.NewRGBA and draw.Draw
Crop(r) ==
    /\ Serving
    /\ pc[r] = "crop"
    /\ rs' = [rs EXCEPT ![r].crop = ClampedCrop(rs[r].measure, rs[r].frame)]
    /\ Goto(r, "encode")
    /\ UNCHANGED <<rq, procState, startVars, budget, cfgVars, tmplVars, files, tabVars>>

\* png.Encode(&out, sub); out holds an image of the crop rectangle's size
Encode(r) ==
    /\ Serving
    /\ pc[r] = "encode"
    /\ IF EncodeFails(CropRect(rs[r].crop))
       THEN FailWith(r, <<"png: invalid format: invalid image size", "">>)
       ELSE /\ rs' = rs
            /\ Goto(r, DeferredCalls(rs[r].wrote, FALSE))
    /\ UNCHANGED <<rq, procState, startVars, budget, cfgVars, tmplVars, files, tabVars>>

\* os.Remove(name) of the deferred function: removes whatever file has the
\* name; an error (the file is gone) is only logged
RemoveFile(fs, name) == [n \in DOMAIN fs \ {name} |-> fs[n]]

DeferredRemove(r) ==
    /\ Serving
    /\ pc[r] = "remove"
    /\ files' = RemoveFile(files, rs[r].tmpFile)
    /\ Goto(r, "cancel")
    /\ UNCHANGED <<rq, rs, procState, startVars, budget, cfgVars, tmplVars, tabVars>>

\* one call of the function NewTabContext returned: cancel(), browserCancel();
\* released counts the calls
Release(r) ==
    /\ ctx' = [ctx EXCEPT ![r] = "cancelled"]
    /\ stalled' = [stalled EXCEPT ![r] = FALSE]
    /\ tabs' = ReleaseTab(tabs, rs[r].tab)
    /\ rs' = [rs EXCEPT ![r].released = @ + 1]
    /\ UNCHANGED <<nextTab, allocators>>

\* the deferred release function of NewTabContext
DeferredCancel(r) ==
    /\ Serving
    /\ pc[r] = "cancel"
    /\ Release(r)
    /\ Goto(r, "respond")
    /\ UNCHANGED <<rq, procState, startVars, budget, cfgVars, tmplVars, files>>

\* RenderHandler after RenderScreenshot returned: the error as JSON with
\* status 500, or the PNG
Respond(r) ==
    /\ Serving
    /\ pc[r] = "respond"
    /\ IF rs[r].err # NoErr
       THEN Finish(r, JsonError(StatusInternalServerError, rs[r].err))
       ELSE Finish(r, PngResponse)
    /\ rs' = [rs EXCEPT ![r] = [InitRs EXCEPT !.tab = rs[r].tab, !.wrote = rs[r].wrote,
                                              !.released = rs[r].released]]
    /\ UNCHANGED <<rq, procState, startVars, budget, cfgVars, tmplVars, files, tabVars>>

(***************************************************************************)
(* The server.                                                             *)
(***************************************************************************)
Ended == {"ok", "error", "deadline"}

RequestStep(r) ==
    \/ \E h \in Headers : AuthMiddleware(r, h)
    \/ \E b \in Payloads \cup {Malformed} : Bind(r, b)
    \/ \E path \in {NoPath} \cup {JoinPath(TemplateDir, n) : n \in StartupFiles} \cup EventNames :
          Select(r, path)
    \/ \E ok \in BOOLEAN : Parse(r, ok)
    \/ \E o \in ExecOutcomes : Exec(r, o)
    \/ NewTabContext(r)
    \/ \E name \in TmpNames, o \in WriteOutcomes : WriteFile(r, name, o)
    \/ \E o \in Ended : Navigate(r, o)
    \/ \E o \in Ended : BackgroundOverride(r, o)
    \/ \E o \in Ended : WaitVisible(r, o)
    \/ \E o \in Ended : ScrollIntoView(r, o)
    \/ \E o \in Ended, m \in Measures \cup {NoMeasure} : Measure(r, o, m)
    \/ \E o \in Ended \cup {"empty"} : Capture(r, o)
    \/ \E ok \in BOOLEAN, f \in Frames \cup {NoFrame} : Decode(r, ok, f)
    \/ Crop(r)
    \/ Encode(r)
    \/ DeferredRemove(r)
    \/ DeferredCancel(r)
    \/ Respond(r)

Next ==
    \/ \E c \in Configs : ConfigChange(c)
    \/ ApplyDynamicConfig
    \/ \E op \in EventOps, name \in EventNames : WatcherEvent(op, name)
    \/ WatcherStore
    \/ \E r \in Requests : TimerExpire(r)
    \/ \E r \in Requests : EngineStall(r)
    \/ \E r \in Requests : SelectCrash(r)
    \/ \E r \in Requests : RequestStep(r)

Spec == Init /\ [][Next]_vars


(***************************************************************************)
(* The crop arithmetic on its own: one request stands after png.Decode     *)
(* with any measured rectangle and any frame of the bounded ranges, and    *)
(* runs the rest of RenderScreenshot and the handler.                      *)
(***************************************************************************)
CropMeasures ==
    [x : 0..MaxCoord, y : 0..MaxCoord, w : 0..MaxCoord, h : 0..MaxCoord, dpr2 : 1..4]
CropFrames == [dx : 1..MaxCoord, dy : 1..MaxCoord]

InitCrop ==
    /\ procState = "serving"
    /\ budget = [requests |-> 1, reloads |-> 0, events |-> 0]
    /\ cfgFile = DefaultConfig
    /\ cfgHist = {cfgFile}
    /\ reloads = 0
    /\ applyPc = "idle"
    /\ globalAuthToken = cfgFile.token
    /\ logLevel = cfgFile.level
    /\ globalBrowserPath = resolveBrowserPath(cfgFile.browser, StartupDisk)
    /\ host = StartupHost
    /\ execPath = resolveBrowserPath(cfgFile.browser, StartupDisk)
    /\ renderQuality = cfgFile.quality
    /\ renderTimeout = cfgFile.timeout
    /\ templateMap = loadTemplates(TemplateDir, StartupFiles)
    /\ mapWrite = NoWrite
    /\ events = 0
    /\ files = (1 :> 1)
    /\ tabs = {1}
    /\ nextTab = 1
    /\ allocators = 1
    /\ pc = [r \in Requests |-> IF r = 1 THEN "crop" ELSE "off"]
    /\ rq = [r \in Requests |-> IF r = 1 THEN [InitRq EXCEPT !.snap = {DefaultConfig}] ELSE InitRq]
    /\ \E m \in CropMeasures, f \in CropFrames :
          rs = [r \in Requests |->
                   IF r = 1
                   THEN [InitRs EXCEPT !.tab = 1, !.tmpFile = 1, !.wrote = TRUE,
                                       !.measure = m, !.frame = f]
                   ELSE InitRs]
    /\ resp = [r \in Requests |-> NoResponse]
    /\ ctx = [r \in Requests |-> IF r = 1 THEN "live" ELSE "none"]
    /\ stalled = [r \in Requests |-> FALSE]

NextCrop ==
    \/ Crop(1)
    \/ Encode(1)
    \/ DeferredRemove(1)
    \/ DeferredCancel(1)
    \/ Respond(1)

SpecCrop == InitCrop /\ [][NextCrop]_vars

(***************************************************************************)
(* The variant of the server in src/unnamed/part_000: the same middleware, *)
(* binding, lookup and parsing; a handler that only logs a failed template *)
(* execution; a RenderScreenshot that starts a browser allocator for each  *)
(* request, writes a file of a fixed name and returns the screenshot as    *)
(* the engine gave it.                                                     *)
(***************************************************************************)
\* what gin sends when the handler returned without writing: status 200,
\* no body
Unwritten == [status |-> StatusOK, ctype |-> "", error |-> NoErr, image |-> FALSE]

\* os.TempDir() + "/render.html"
RenderHtml == 1

V_Exec(r, outcome) ==
    /\ Serving
    /\ pc[r] = "exec"
    /\ IF rq[r].body.data = "nil"
       THEN /\ outcome = "ok"
            /\ rq' = [rq EXCEPT ![r].html = "empty", ![r].body = NoBody]
            /\ Goto(r, "resolve")
       ELSE IF safeExecuteTemplate(outcome) # NoErr
       THEN /\ rq' = [rq EXCEPT ![r].body = NoBody]
            /\ Finish(r, Unwritten)
       ELSE /\ rq' = [rq EXCEPT ![r].html = "rendered", ![r].body = NoBody]
            /\ Goto(r, "resolve")
    /\ UNCHANGED <<rs, procState, startVars, budget, cfgVars, tmplVars, files, tabVars>>

\* browserPath := resolveBrowserPath(): loads globalBrowserPath
V_ResolveBrowserPath(r) ==
    /\ Serving
    /\ pc[r] = "resolve"
    /\ rq' = [rq EXCEPT ![r].snap = Agreeing(@, "browser", globalBrowserPath)]
    /\ Goto(r, "newtab")
    /\ UNCHANGED <<rs, procState, startVars, budget, cfgVars, tmplVars, files, tabVars>>

\* NewRenderContext: an allocator, a tab context and a deadline per request
V_NewRenderContext(r) ==
    /\ Serving
    /\ pc[r] = "newtab"
    /\ allocators' = allocators + 1
    /\ nextTab' = nextTab + 1
    /\ tabs' = tabs \cup {NewTabId(nextTab)}
    /\ ctx' = [ctx EXCEPT ![r] = ArmDeadline(renderTimeout)]
    /\ rs' = [rs EXCEPT ![r].tab = NewTabId(nextTab)]
    /\ rq' = [rq EXCEPT ![r].snap = Agreeing(@, "timeout", renderTimeout)]
    /\ Goto(r, "write")
    /\ UNCHANGED <<stalled, procState, startVars, budget, cfgVars, tmplVars, files>>

\* os.WriteFile(tmpFile, ...): no deferred os.Remove follows
V_WriteFile(r, outcome) ==
    /\ Serving
    /\ pc[r] = "write"
    /\ CASE outcome = "ok" ->
              /\ files' = MapStore(files, RenderHtml, r)
              /\ rs' = [rs EXCEPT ![r].tmpFile = RenderHtml, ![r].wrote = TRUE]
              /\ Goto(r, "navigate")
         [] outcome = "openfail" ->
              /\ files' = files
              /\ rs' = [rs EXCEPT ![r].err = <<"write failed", "">>]
              /\ Goto(r, "cancel")
         [] OTHER ->
              /\ files' = MapStore(files, RenderHtml, 0)
              /\ rs' = [rs EXCEPT ![r].err = <<"write failed", "">>]
              /\ Goto(r, "cancel")
    /\ rq' = [rq EXCEPT ![r].html = "none"]
    /\ UNCHANGED <<procState, startVars, budget, cfgVars, tmplVars, tabVars>>

V_FailWith(r, err) ==
    /\ rs' = [rs EXCEPT ![r].err = err, ![r].loaded = 0]
    /\ Goto(r, "cancel")

\* chromedp.Navigate("file://" + tmpFile), first action of the only run
V_Navigate(r, outcome) ==
    /\ Serving
    /\ pc[r] = "navigate"
    /\ outcome \in RunOutcomes(r)
    /\ outcome = "ok" => rs[r].tmpFile \in DOMAIN files
    /\ IF outcome = "ok"
       THEN /\ rs' = [rs EXCEPT ![r].loaded = files[rs[r].tmpFile]]
            /\ Goto(r, "capture")
       ELSE V_FailWith(r, <<"", Cause(outcome)>>)
    /\ UNCHANGED <<rq, procState, startVars, budget, cfgVars, tmplVars, files, tabVars>>

\* chromedp.FullScreenshot(&buf, int(renderQuality.Load())); return buf, err
V_Capture(r, outcome) ==
    /\ Serving
    /\ pc[r] = "capture"
    /\ outcome \in RunOutcomes(r)
    /\ rq' = [rq EXCEPT ![r].snap = Agreeing(@, "quality", renderQuality)]
    /\ IF outcome = "ok"
       THEN /\ rs' = [rs EXCEPT ![r].loaded = 0]
            /\ Goto(r, "cancel")
       ELSE V_FailWith(r, <<"", Cause(outcome)>>)
    /\ UNCHANGED <<procState, startVars, budget, cfgVars, tmplVars, files, tabVars>>

\* the deferred release function of NewRenderContext: cancel(),
\* browserCancel(), allocCancel()
V_DeferredCancel(r) ==
    /\ Serving
    /\ pc[r] = "cancel"
    /\ ctx' = [ctx EXCEPT ![r] = "cancelled"]
    /\ stalled' = [stalled EXCEPT ![r] = FALSE]
    /\ tabs' = ReleaseTab(tabs, rs[r].tab)
    /\ Goto(r, "respond")
    /\ UNCHANGED <<nextTab, allocators, rq, rs, procState, startVars, budget, cfgVars, tmplVars, files>>

V_Respond(r) ==
    /\ Serving
    /\ pc[r] = "respond"
    /\ IF rs[r].err # NoErr
       THEN Finish(r, JsonError(StatusInternalServerError, rs[r].err))
       ELSE Finish(r, PngResponse)
    /\ rs' = [rs EXCEPT ![r] = [InitRs EXCEPT !.tab = rs[r].tab, !.wrote = rs[r].wrote]]
    /\ UNCHANGED <<rq, procState, startVars, budget, cfgVars, tmplVars, files, tabVars>>

\* main() of the variant up to r.Run: no allocator is created at startup and
\* resolveBrowserPath is not called
InitVariant ==
    /\ procState = "serving"
    /\ host = StartupHost
    /\ execPath = ""
    /\ budget \in Scenarios
    /\ cfgFile \in Configs
    /\ cfgHist = {cfgFile}
    /\ reloads = 0
    /\ applyPc = "idle"
    /\ globalAuthToken = cfgFile.token
    /\ logLevel = cfgFile.level
    /\ globalBrowserPath = cfgFile.browser
    /\ renderQuality = cfgFile.quality
    /\ renderTimeout = cfgFile.timeout
    /\ templateMap = loadTemplates(TemplateDir, StartupFiles)
    /\ mapWrite = NoWrite
    /\ events = 0
    /\ files = << >>
    /\ tabs = {}
    /\ nextTab = 0
    /\ allocators = 0
    /\ InitRequests

V_RequestStep(r) ==
    \/ \E h \in Headers : AuthMiddleware(r, h)
    \/ \E b \in Payloads \cup {Malformed} : Bind(r, b)
    \/ \E path \in {NoPath} \cup {JoinPath(TemplateDir, n) : n \in StartupFiles} \cup EventNames :
          Select(r, path)
    \/ \E ok \in BOOLEAN : Parse(r, ok)
    \/ \E o \in ExecOutcomes : V_Exec(r, o)
    \/ V_ResolveBrowserPath(r)
    \/ V_NewRenderContext(r)
    \/ \E o \in WriteOutcomes : V_WriteFile(r, o)
    \/ \E o \in Ended : V_Navigate(r, o)
    \/ \E o \in Ended : V_Capture(r, o)
    \/ V_DeferredCancel(r)
    \/ V_Respond(r)

NextVariant ==
    \/ \E c \in Configs : ConfigChange(c)
    \/ ApplyDynamicConfig
    \/ \E op \in EventOps, name \in EventNames : WatcherEvent(op, name)
    \/ WatcherStore
    \/ \E r \in Requests : TimerExpire(r)
    \/ \E r \in Requests : EngineStall(r)
    \/ \E r \in Requests : SelectCrash(r)
    \/ \E r \in Requests : V_RequestStep(r)

SpecVariant == InitVariant /\ [][NextVariant]_vars

(***************************************************************************)
(* Startup: main() of src/main.go from resolveBrowserPath() to r.Run, on    *)
(* any host, while the goroutine of viper.WatchConfig can reload the        *)
(* configuration.                                                           *)
(***************************************************************************)
GoosValues == {"linux", "other"}
Hosts == [goos : GoosValues, disk : SUBSET {LinuxPaths[i] : i \in 1..Len(LinuxPaths)}]

\* switch runtime.GOOS: the probe of the OS, "" for an OS with no list
ProbeHost(h) == IF h.goos = "linux" THEN findLinuxChromePath(h.disk) ELSE ""

\* the state after InitLogger, InitConfig and WatchConfigChanges
InitStartup ==
    /\ procState = "resolve"
    /\ host \in Hosts
    /\ execPath = ""
    /\ budget = [requests |-> 1, reloads |-> MaxReloads, events |-> 0]
    /\ cfgFile \in Configs
    /\ cfgHist = {cfgFile}
    /\ reloads = 0
    /\ applyPc = "idle"
    /\ globalAuthToken = cfgFile.token
    /\ logLevel = cfgFile.level
    /\ globalBrowserPath = cfgFile.browser
    /\ renderQuality = cfgFile.quality
    /\ renderTimeout = cfgFile.timeout
    /\ templateMap = << >>
    /\ mapWrite = NoWrite
    /\ events = 0
    /\ files = << >>
    /\ tabs = {}
    /\ nextTab = 0
    /\ allocators = 0
    /\ InitRequests

\* resolveBrowserPath: if globalBrowserPath.Load() != ""
ResolveCheck ==
    /\ procState = "resolve"
    /\ procState' = IF globalBrowserPath # "" THEN "reload" ELSE "probe"
    /\ UNCHANGED <<startVars, budget, cfgVars, tmplVars, files, tabVars, reqVars>>

\* resolveBrowserPath: return globalBrowserPath.Load()
ResolveReturnConfigured ==
    /\ procState = "reload"
    /\ execPath' = globalBrowserPath
    /\ procState' = "allocate"
    /\ UNCHANGED <<host, budget, cfgVars, tmplVars, files, tabVars, reqVars>>

\* resolveBrowserPath: the probe of the OS; a path that is found is stored
\* in globalBrowserPath and returned
ResolveProbe ==
    /\ procState = "probe"
    /\ execPath' = ProbeHost(host)
    /\ globalBrowserPath' = IF ProbeHost(host) # "" THEN ProbeHost(host) ELSE globalBrowserPath
    /\ procState' = "allocate"
    /\ UNCHANGED <<cfgFile, cfgHist, reloads, applyPc, globalAuthToken, logLevel,
                   renderQuality, renderTimeout>>
    /\ UNCHANGED <<host, budget, tmplVars, files, tabVars, reqVars>>

\* InitGlobalAllocator(browserPath): chromedp.NewExecAllocator starts no
\* browser and returns no error
InitGlobalAllocator ==
    /\ procState = "allocate"
    /\ allocators' = allocators + 1
    /\ procState' = "load"
    /\ UNCHANGED <<tabs, nextTab, ctx, stalled>>
    /\ UNCHANGED <<startVars, budget, cfgVars, tmplVars, files, reqVars>>

\* loadTemplates, whose error is fatal; then watchTemplateDir and r.Run
LoadAndServe(ok) ==
    /\ procState = "load"
    /\ IF ok
       THEN /\ templateMap' = loadTemplates(TemplateDir, StartupFiles)
            /\ procState' = "serving"
       ELSE /\ templateMap' = templateMap
            /\ procState' = "fatal"
    /\ UNCHANGED <<mapWrite, events>>
    /\ UNCHANGED <<startVars, budget, cfgVars, files, tabVars, reqVars>>

NextStartup ==
    \/ ResolveCheck
    \/ ResolveReturnConfigured
    \/ ResolveProbe
    \/ InitGlobalAllocator
    \/ \E ok \in BOOLEAN : LoadAndServe(ok)
    \/ \E c \in Configs : ConfigChange(c)
    \/ ApplyDynamicConfig
    \/ \E r \in Requests, h \in Headers : AuthMiddleware(r, h)

SpecStartup == InitStartup /\ [][NextStartup]_vars

(***************************************************************************)
(* The release function of NewTabContext called again: the server with its *)
(* requests, where a request that has returned from RenderScreenshot calls *)
(* its release function up to MaxRelease times in all.                     *)
(***************************************************************************)
ReleaseAgain(r) ==
    /\ Serving
    /\ pc[r] \in {"respond", "done"}
    /\ rs[r].released >= 1
    /\ rs[r].released < MaxRelease
    /\ Release(r)
    /\ UNCHANGED <<pc, rq, resp, procState, startVars, budget, cfgVars, tmplVars, files>>

InitRelease ==
    /\ Init
    /\ budget.reloads = 0

NextRelease ==
    \/ \E r \in Requests : TimerExpire(r)
    \/ \E r \in Requests : EngineStall(r)
    \/ \E r \in Requests : RequestStep(r)
    \/ \E r \in Requests : ReleaseAgain(r)

SpecRelease == InitRelease /\ [][NextRelease]_vars

(***************************************************************************)
(* The template map over a run of watcher events: the server with up to    *)
(* MaxWatch events of the template directory and one request that looks    *)
(* its template up.                                                        *)
(***************************************************************************)
InitTemplates ==
    /\ procState = "serving"
    /\ budget = [requests |-> 1, reloads |-> 0, events |-> MaxWatch]
    /\ cfgFile \in Configs
    /\ cfgHist = {cfgFile}
    /\ reloads = 0
    /\ applyPc = "idle"
    /\ globalAuthToken = cfgFile.token
    /\ logLevel = cfgFile.level
    /\ globalBrowserPath = resolveBrowserPath(cfgFile.browser, StartupDisk)
    /\ host = StartupHost
    /\ execPath = resolveBrowserPath(cfgFile.browser, StartupDisk)
    /\ renderQuality = cfgFile.quality
    /\ renderTimeout = cfgFile.timeout
    /\ templateMap = loadTemplates(TemplateDir, StartupFiles)
    /\ mapWrite = NoWrite
    /\ events = 0
    /\ files = << >>
    /\ tabs = {}
    /\ nextTab = 0
    /\ allocators = 1
    /\ InitRequests

NextTemplates ==
    \/ \E op \in EventOps, name \in EventNames : WatcherEvent(op, name)
    \/ WatcherStore
    \/ \E r \in Requests, h \in Headers : AuthMiddleware(r, h)
    \/ \E r \in Requests, b \in Payloads \cup {Malformed} : Bind(r, b)
    \/ \E r \in Requests :
          \E path \in {NoPath} \cup {JoinPath(TemplateDir, n) : n \in StartupFiles} \cup EventNames :
              Select(r, path)
    \/ \E r \in Requests : SelectCrash(r)

SpecTemplates == InitTemplates /\ [][NextTemplates]_vars

(***************************************************************************)
(* Properties.                                                             *)
(***************************************************************************)
\* the stages of RenderScreenshot, from its first statement to its last
\* deferred call
RenderStages ==
    {"newtab", "write", "navigate", "background", "waitvisible", "scroll",
     "measure", "capture", "decode", "crop", "encode", "remove", "cancel"}

Returned(r) == pc[r] \in {"respond", "done"}

OwnsFile(r) ==
    /\ rs[r].tmpFile \in DOMAIN files
    /\ files[rs[r].tmpFile] = r

\* C1: when RenderScreenshot has returned, on the success path or on any error
\* path after the temporary file was written, the file the request wrote no
\* longer exists.
C1_TempFileRemoved ==
    \A r \in Requests : (pc[r] = "respond" /\ rs[r].wrote) => ~OwnsFile(r)

\* a request that wrote its file and returned an error because the deadline
\* passed during a browser step
C1_Witness ==
    \E r \in Requests :
        /\ pc[r] = "respond"
        /\ rs[r].wrote
        /\ rs[r].err[2] = "context deadline exceeded"
        /\ rs[r].tmpFile \notin DOMAIN files

\* C2: a tab a request created is released when its RenderScreenshot has
\* returned, whatever the exit path; with every request finished no tab is
\* open; two requests never hold the same tab.
C2_TabsReleased ==
    /\ \A r \in Requests : Returned(r) => rs[r].tab \notin tabs
    /\ (\A r \in Requests : pc[r] \in {"done", "off"}) => tabs = {}
    /\ \A r, q \in Requests : (r # q /\ rs[r].tab # 0) => rs[r].tab # rs[q].tab
    /\ tabs \subseteq {rs[r].tab : r \in Requests}

\* one request answered with an error after its tab was opened, while the
\* other request still holds its own open tab
C2_Witness ==
    \E r, q \in Requests :
        /\ pc[r] = "done"
        /\ resp[r].status = StatusInternalServerError
        /\ rs[r].tab # 0
        /\ rs[q].tab \in tabs

\* C3: a request inside RenderScreenshot never hangs: in every state it is in,
\* the request can take its next step or its deadline can still fire, so that
\* it goes on to return.
C3_RenderCanReturn ==
    \A r \in Requests :
        pc[r] \in RenderStages => ENABLED (RequestStep(r) \/ TimerExpire(r))

\* C4: the crop rectangle is clamped to the decoded frame: its offsets,
\* width and height are not negative, it lies inside the frame, and cropping
\* and encoding give no error.
C4_CropInsideFrame ==
    \A r \in Requests :
        /\ pc[r] = "encode" =>
              /\ rs[r].crop.x >= 0 /\ rs[r].crop.y >= 0
              /\ rs[r].crop.w >= 0 /\ rs[r].crop.h >= 0
              /\ CropRect(rs[r].crop).minX >= 0
              /\ CropRect(rs[r].crop).minY >= 0
              /\ CropRect(rs[r].crop).maxX <= rs[r].frame.dx
              /\ CropRect(rs[r].crop).maxY <= rs[r].frame.dy
        /\ rs[r].err[1] # "png: invalid format: invalid image size"

\* C5: a successful pipeline gives an image of width
\* min(ceil(rectW * dpr), frameW - floor(rectX * dpr)) and of the height
\* computed the same way, for every device pixel ratio.
C5_OutputDimensions ==
    \A r \in Requests :
        (pc[r] \in {"remove", "cancel", "respond"} /\ rs[r].err = NoErr /\ rs[r].frame # NoFrame) =>
            LET m == rs[r].measure
                f == rs[r].frame
                out == CropRect(rs[r].crop)
            IN  /\ RectDx(out) = Min2(CeilHalf(m.w * m.dpr2), f.dx - FloorHalf(m.x * m.dpr2))
                /\ RectDy(out) = Min2(CeilHalf(m.h * m.dpr2), f.dy - FloorHalf(m.y * m.dpr2))

\* C6: every request the handler has finished was answered with a complete
\* PNG image or with a JSON error of an error status; the handler never
\* returns without having written a response.
C6_AlwaysAnswered ==
    \A r \in Requests :
        pc[r] = "done" =>
            \/ resp[r] = PngResponse
            \/ /\ resp[r].status >= StatusBadRequest
               /\ resp[r].ctype = "application/json"
               /\ resp[r].error # NoErr

\* C7: a request whose body cannot be bound is answered 400 with a JSON
\* error; no template was looked up, no tab was created and no file written.
C7_MalformedRejected ==
    \A r \in Requests :
        rq[r].body = Malformed =>
            /\ pc[r] = "done"
            /\ resp[r] = JsonError(StatusBadRequest, <<"invalid request body", "">>)
            /\ rq[r].found = "unread"
            /\ rs[r].tab = 0
            /\ ~rs[r].wrote
            /\ ctx[r] = "none"

C7_Witness ==
    \E r \in Requests :
        /\ rq[r].body = Malformed
        /\ resp[r].status = StatusBadRequest
        /\ templateMap # << >>

\* C8: a request for a site and type the template map has no entry for is
\* answered 400 with an error that says no template was found; no tab was
\* created and no file written.
C8_MissingTemplateRejected ==
    \A r \in Requests :
        rq[r].found = "absent" =>
            /\ pc[r] = "done"
            /\ resp[r] = JsonError(StatusBadRequest, <<"no template found", "">>)
            /\ rs[r].tab = 0
            /\ ~rs[r].wrote
            /\ ctx[r] = "none"

C8_Witness ==
    \E r \in Requests :
        /\ rq[r].found = "absent"
        /\ resp[r].status = StatusBadRequest
        /\ resp[r].error[1] = "no template found"

\* C9: a request goes past the middleware exactly when the configured token
\* is empty or its Authorization header equals the token; any other request
\* is answered 401 and reaches nothing behind the middleware.
C9_AuthExactMatch ==
    \A r \in Requests :
        /\ pc[r] = "bind" => (rq[r].expected = "" \/ rq[r].hdr = rq[r].expected)
        /\ resp[r].status = StatusUnauthorized =>
              /\ rq[r].expected # ""
              /\ rq[r].hdr # rq[r].expected
              /\ pc[r] = "done"
              /\ resp[r].ctype = "application/json"
              /\ rq[r].body = NoBody
              /\ rq[r].found = "unread"
              /\ rs[r].tab = 0
              /\ ~rs[r].wrote

\* with a token configured: one request carried another token and was
\* answered 401, the other carried the token and went on
C9_Witness ==
    \E r, q \in Requests :
        /\ resp[r].status = StatusUnauthorized
        /\ rq[r].hdr \in Tokens \ {""}
        /\ pc[q] = "bind"
        /\ rq[q].expected # ""
        /\ rq[q].hdr = rq[q].expected

\* C10: the settings one request reads (token, timeout, quality) all come
\* from one configuration the file has held, never from a mix of two.
C10_ConfigSnapshot ==
    \A r \in Requests : rq[r].snap \cap cfgHist # {}

\* C11: no lookup of the template map by a request handler overlaps a write
\* of the watcher to the map: no lookup was made while the watcher was inside
\* its assignment to the same key, and the runtime never stopped the process
\* for a concurrent read and write of the map.
C11_LookupsTolerateRefresh ==
    /\ procState # "crashed"
    /\ \A r \in Requests : rq[r].found # "racing"

\* the handler's step that ran the template of request r and met a panic
PanicStep(r) == rq[r].fault # "panic" /\ rq'[r].fault = "panic"

\* C12: a panic inside template execution comes back from
\* safeExecuteTemplate as an error: the request is answered with an HTTP
\* error, no tab, deadline or file is made for it, and the step leaves the
\* process serving.
C12_PanicBecomesError ==
    /\ [](\A r \in Requests :
            rq[r].fault = "panic" =>
                /\ pc[r] = "done"
                /\ resp[r] = JsonError(StatusInternalServerError,
                                       <<"execute template failed", "panic">>)
                /\ rs[r].tab = 0
                /\ ~rs[r].wrote
                /\ ctx[r] = "none")
    /\ [][\A r \in Requests : PanicStep(r) => procState' = "serving"]_vars

\* one request was answered with the error of a panic, and the process went
\* on to answer another request with an image
C12_Witness ==
    \E r, q \in Requests :
        /\ rq[r].fault = "panic"
        /\ resp[r].status = StatusInternalServerError
        /\ resp[q] = PngResponse
        /\ procState = "serving"

\* C13: the process serves requests only with a browser path that was
\* resolved at startup: with an empty resolved path main() ends in a fatal
\* error before r.Run.
C13_EmptyPathIsFatal == Serving => execPath # ""

\* request r has written its file and has not yet returned from
\* RenderScreenshot
HoldsFile(r) == pc[r] \in RenderStages /\ rs[r].wrote

\* C14: two requests in flight never use the same temporary file path; the
\* file a request is about to navigate to is the one it wrote, and the
\* document a request has loaded is its own.
C14_OwnTempFile ==
    /\ \A r, q \in Requests :
          (r # q /\ HoldsFile(r) /\ HoldsFile(q)) => rs[r].tmpFile # rs[q].tmpFile
    /\ \A r \in Requests : (pc[r] = "navigate" /\ rs[r].wrote) => OwnsFile(r)
    /\ \A r \in Requests : rs[r].loaded # 0 => rs[r].loaded = r

\* a call of request r's release function that is not its first
LaterRelease(r) == rs[r].released >= 1 /\ rs'[r].released = rs[r].released + 1

HoldsTab(r) == pc[r] \in RenderStages \ {"newtab"}

\* C16: there is one browser allocator at most, no step of a request creates
\* or cancels one, and the tab of a request stays open until that request's
\* own release, whatever other requests release or time out.
C16_OneAllocator ==
    /\ [](allocators <= 1)
    /\ [](\A r \in Requests : HoldsTab(r) => rs[r].tab \in tabs)
    /\ [][allocators' = allocators]_vars
    /\ [][\A r, q \in Requests :
            (r # q /\ (pc'[r] # pc[r] \/ ctx'[r] # ctx[r])) =>
                (ctx'[q] = ctx[q] /\ (rs[q].tab \in tabs <=> rs[q].tab \in tabs'))]_vars

\* one request ended by its deadline and was released while the other holds
\* an open tab with a live deadline under the one allocator
C16_Witness ==
    \E r, q \in Requests :
        /\ pc[r] = "done"
        /\ resp[r].error[2] = "context deadline exceeded"
        /\ HoldsTab(q)
        /\ rs[q].tab \in tabs
        /\ ctx[q] = "live"
        /\ allocators = 1

\* the stages of the pipeline in the order of RenderScreenshot
StageOrder ==
    <<"write", "navigate", "background", "waitvisible", "scroll", "measure",
      "capture", "decode", "crop", "encode">>

StageIndex(label) == CHOOSE i \in 1..Len(StageOrder) : StageOrder[i] = label

IsStage(label) == \E i \in 1..Len(StageOrder) : StageOrder[i] = label

\* the deferred calls, which end RenderScreenshot
ExitStages == {"remove", "cancel"}

\* C17: a request leaves a stage of the pipeline either for the next stage
\* in order, with no error, or, for the last stage and for a stage that
\* failed, for the deferred calls that end RenderScreenshot; a request that
\* carries an error is in no stage.
C17_StagesInOrder ==
    /\ [][\A r \in Requests :
            (IsStage(pc[r]) /\ pc'[r] # pc[r]) =>
                \/ /\ rs'[r].err = NoErr
                   /\ StageIndex(pc[r]) < Len(StageOrder)
                   /\ pc'[r] = StageOrder[StageIndex(pc[r]) + 1]
                \/ /\ rs'[r].err = NoErr
                   /\ StageIndex(pc[r]) = Len(StageOrder)
                   /\ pc'[r] \in ExitStages
                \/ /\ rs'[r].err # NoErr
                   /\ pc'[r] \in ExitStages]_vars
    /\ [](\A r \in Requests : rs[r].err # NoErr => pc[r] \in ExitStages \cup {"respond"})

\* one request went through every stage to the encoded image, another
\* failed at decoding and is in its deferred calls
C17_Witness ==
    \E r, q \in Requests :
        /\ pc[r] = "remove"
        /\ rs[r].err = NoErr
        /\ rs[r].frame # NoFrame
        /\ rs[q].err[1] = "failed to decode screenshot"

\* the settle delay of the specification, in ms: RenderScreenshot has none
SettleDelayMs == 100

\* every configuration that agrees with what request r loaded has a timeout
\* shorter than the settle delay
ShortTimeout(r) ==
    /\ rq[r].snap # {}
    /\ \A c \in rq[r].snap : c.timeout < SettleDelayMs

\* C18: a request whose render timeout is shorter than the settle delay
\* waited between scrolling and measuring never ends in an image: it ends in
\* a failure, with its temporary file deleted.
C18_ShortTimeoutFails ==
    \A r \in Requests :
        (pc[r] \in {"respond", "done"} /\ rs[r].wrote /\ ShortTimeout(r)) =>
            /\ resp[r] # PngResponse
            /\ pc[r] = "respond" => rs[r].err # NoErr
            /\ pc[r] = "respond" => ~OwnsFile(r)

\* the non-empty browser paths the configuration has held
ConfiguredPaths == {c.browser : c \in cfgHist} \ {""}

\* C19: what resolveBrowserPath has returned is a configured path, unchanged;
\* or, nothing being configured, the first listed path that exists on the
\* host, which is then also stored in globalBrowserPath (until a reload
\* stores the configured value again); or the empty string, when the host
\* has no listed path.
C19_ResolvedPath ==
    procState = "allocate" =>
        \/ execPath \in ConfiguredPaths
        \/ /\ execPath # ""
           /\ execPath = ProbeHost(host)
           /\ globalBrowserPath \in {execPath} \cup {c.browser : c \in cfgHist}
        \/ /\ execPath = ""
           /\ ProbeHost(host) = ""

\* the handler's step of request r past the template execution, for a
\* request without data
NilDataStep(r) == pc[r] = "exec" /\ rq[r].body.data = "nil" /\ pc'[r] # "exec"

\* C20: for a request without data whose template was found and parsed the
\* handler skips the execution and calls RenderScreenshot with an empty
\* document: the request gets a tab and writes its temporary file, and no
\* request that has a tab is answered as a client error.
C20_NilDataRunsPipeline ==
    /\ [][\A r \in Requests :
            NilDataStep(r) =>
                (pc'[r] = "newtab" /\ rq'[r].html = "empty" /\ resp'[r] = NoResponse)]_vars
    /\ [](\A r \in Requests :
            rq[r].html = "empty" =>
                /\ pc[r] \in {"newtab", "write", "navigate"}
                /\ resp[r] = NoResponse
                /\ pc[r] # "newtab" => rs[r].tab \in tabs
                /\ pc[r] = "navigate" => rs[r].wrote)
    /\ [](\A r \in Requests :
            rs[r].tab # 0 => resp[r].status \notin {StatusBadRequest, StatusUnauthorized})

\* a request without data that has its tab and has written its empty document
C20_Witness ==
    \E r \in Requests :
        /\ rq[r].html = "empty"
        /\ pc[r] = "navigate"
        /\ rs[r].tab \in tabs
        /\ OwnsFile(r)

\* the map loadTemplates built at startup
StartupMap == loadTemplates(TemplateDir, StartupFiles)

\* C21: no step removes a key of the template map; a step that changes the
\* map is the watcher's assignment and sets the one key of its event to the
\* path of the event, leaving every other entry as it was; every key
\* registered at startup stays resolvable, whatever events followed.
C21_MapOnlyGrows ==
    /\ [][DOMAIN templateMap \subseteq DOMAIN templateMap']_vars
    /\ [][templateMap' # templateMap =>
            /\ mapWrite # NoWrite
            /\ DOMAIN templateMap' = DOMAIN templateMap \cup {mapWrite.key}
            /\ templateMap'[mapWrite.key] = mapWrite.path
            /\ \A k \in DOMAIN templateMap :
                  k # mapWrite.key => templateMap'[k] = templateMap[k]]_vars
    /\ [](\A k \in DOMAIN StartupMap :
            /\ k \in DOMAIN templateMap
            /\ MapLookup(templateMap, k) # NoPath)

\* after MaxWatch events the watcher has added the key x/b, and the key a/b
\* of startup resolves to its path
C21_Witness ==
    /\ events = MaxWatch
    /\ mapWrite = NoWrite
    /\ TemplateKey(<<"x">>, <<"b">>) \in DOMAIN templateMap
    /\ TemplateKey(<<"a">>, <<"b">>) \in DOMAIN templateMap
    /\ MapLookup(templateMap, TemplateKey(<<"a">>, <<"b">>)) =
           StartupMap[TemplateKey(<<"a">>, <<"b">>)]

====
